---- MODULE Spec2Model ----
(***************************************************************************)
(* AppCache-on-ServiceWorker shim: the worker's fetch resolution           *)
(* (legacy-appcache-behavior-import.js) and its cache sweep, over the      *)
(* three IndexedDB stores and the Cache Storage they share with the page.  *)
(*                                                                         *)
(* URLs are sequences of one-character strings, so that startsWith is the  *)
(* raw string prefix relation of the code.                                 *)
(***************************************************************************)
EXTENDS Integers, Sequences, FiniteSets, TLC

\* ------------------------------------------------------------------ bounds
MaxClients == 2
MaxHistory == 2
MaxPrefixes == 2
MaxUrlLen == 2
MaxPolls == 3

\* ------------------------------------------------------------------ URLs
P1 == <<"p">>
Ux == <<"x">>
Uxc == <<"x", "c">>
Uxd == <<"x", "d">>
Uxdq == <<"x", "d", "q">>
Un == <<"n">>
Uo == <<"o">>
Uf1 == <<"f", "1">>
Uf2 == <<"f", "2">>
Uf3 == <<"f", "3">>
Star == <<"*">>
NoUrl == <<>>

RequestUrls == {P1, Uxc, Uxdq, Un, Uo}

\* ------------------------------------------------------------------ manifests
\* The manifest URLs in key order: IndexedDB getAll() enumerates by key.
ManifestOrder == <<"m1", "m2">>
ManifestUrls == {ManifestOrder[i] : i \in 1..Len(ManifestOrder)}

Texts == {"T1", "T2"}

\* The texts the server of each manifest URL may answer with.
ServerTexts(m) == IF m = "m1" THEN {"T1", "T2"} ELSE {"T1"}

\* parse-appcache-manifest followed by makeManifestUrlsAbsolute: the three
\* sections of each text. fallback is the object's entries in key order.
Parsed(t) ==
  IF t = "T1"
  THEN [cache |-> <<Uo>>,
        fallback |-> << <<Ux, Uf1>> >>,
        network |-> <<Star>>]
  ELSE [cache |-> <<Uxc>>,
        fallback |-> << <<Ux, Uf2>>, <<Uxd, Uf3>> >>,
        network |-> <<Un, Uxc>>]

\* The digest of a manifest text, which names the version and its cache.
Hash(t) == IF t = "T1" THEN "h1" ELSE "h2"

Hashes == {Hash(t) : t \in Texts}
NoHash == "none"

ManifestVersion(t) == [hash |-> Hash(t), text |-> t]

\* ------------------------------------------------------------------ helpers
Range(s) == {s[i] : i \in 1..Len(s)}
Last(s) == s[Len(s)]

\* String.prototype.startsWith
StartsWith(fullUrl, urlPrefix) ==
  /\ Len(urlPrefix) <= Len(fullUrl)
  /\ SubSeq(fullUrl, 1, Len(urlPrefix)) = urlPrefix

\* Array.prototype.filter, keeping the order.
RECURSIVE FilterPrefixes(_, _)
FilterPrefixes(urlPrefixes, fullUrl) ==
  IF urlPrefixes = <<>> THEN <<>>
  ELSE IF StartsWith(fullUrl, Head(urlPrefixes))
       THEN <<Head(urlPrefixes)>> \o FilterPrefixes(Tail(urlPrefixes), fullUrl)
       ELSE FilterPrefixes(Tail(urlPrefixes), fullUrl)

\* The reducer of longestMatchingPrefix, and the variant of it that keeps
\* the shorter of two matches.
KeepShorter(longestSoFar, current) ==
  IF Len(longestSoFar) <= Len(current) /\ longestSoFar # <<>>
  THEN longestSoFar ELSE current

KeepLonger(longestSoFar, current) ==
  IF Len(longestSoFar) >= Len(current) THEN longestSoFar ELSE current

RECURSIVE ReducePrefixes(_, _)
ReducePrefixes(acc, matches) ==
  IF matches = <<>> THEN acc
  ELSE ReducePrefixes(KeepLonger(acc, Head(matches)), Tail(matches))

longestMatchingPrefix(urlPrefixes, fullUrl) ==
  ReducePrefixes(<<>>, FilterPrefixes(urlPrefixes, fullUrl))

\* ------------------------------------------------------------------ state
ClientIds == 1..MaxClients
NoClient == 0

\* Every client of the worker's scope is a tab showing the page P1.
ClientUrl(c) == P1

VARIABLES
  pathToManifest,        \* PATH_TO_MANIFEST: client URL -> [url, hash]
  manifestUrlToContents, \* MANIFEST_URL_TO_CONTENTS: manifest URL -> versions
  clientIdToHash,        \* CLIENT_ID_TO_HASH: clientId -> hash
  caches,                \* Cache Storage: cache name -> URLs with a response
  clients,               \* clientId -> "unborn" | "live" | "gone"
  sweep,                 \* the cleanupOldCaches chain in flight
  ev,                    \* the fetch event being answered
  lmpPrefixes,           \* arguments and result of longestMatchingPrefix
  lmpUrl,
  lmpResult,
  page,                  \* the page agent's runs: texts polled and installed
  install,               \* the addToCache call in flight
  tabs                   \* per tab, the page agent's promise chain

vars == <<pathToManifest, manifestUrlToContents, clientIdToHash, caches,
          clients, sweep, ev, lmpPrefixes, lmpUrl, lmpResult, page,
          install, tabs>>

storeVars == <<pathToManifest, manifestUrlToContents, clientIdToHash, caches,
               clients, sweep, ev>>
prefixVars == <<lmpPrefixes, lmpUrl, lmpResult>>
agentVars == <<install, tabs>>

Put(f, k, v) == (k :> v) @@ f
Delete(f, ks) == [x \in DOMAIN f \ ks |-> f[x]]
Empty == [x \in {} |-> x]

\* No page agent has run: per manifest URL, the texts its polls fetched and
\* the texts handed to performManifestUpdate, in order.
PageIdle == [polls |-> [m \in ManifestUrls |-> <<>>],
             installed |-> [m \in ManifestUrls |-> <<>>]]

\* The tabs whose page agents run side by side.
MaxTabs == 2
Tabs == 1..MaxTabs

\* No addToCache call is in flight. script is the file whose addToCache
\* runs; of the URLs (by index), fetched are those whose fetch settled,
\* inflight those whose cache.put or cache.delete was issued and has not
\* completed, finished those whose chain settled; before is the content of
\* the cache when the call started.
InstallIdle == [pc |-> "idle", script |-> "none", urls |-> <<>>,
                outcomes |-> <<>>, before |-> {}, fetched |-> {},
                inflight |-> {}, finished |-> {}]

\* No page has loaded in the tab. chain is the promise chain of the entry
\* point and sw whether the boot snippet names a worker script. assoc holds
\* the parts of updateManifestAssociationForCurrentPage that completed, poll
\* the position of handlePossibleManifestUpdate, parts the parts of
\* performManifestUpdate that completed, fetched the manifest text the
\* poll's fetch gave.
TabIdle == [chain |-> "idle", sw |-> FALSE, assoc |-> {}, poll |-> "idle",
            parts |-> {}, fetched |-> ""]
TabsIdle == [t \in Tabs |-> TabIdle]

\* ------------------------------------------------------------------ responses
\* What a promise of the worker settles to. by: "fetch" (the n-th live fetch
\* of the event), "cache" (the entry of url in the cache named cache),
\* "error" (Response.error()), or the failure that rejected it.
Settled(kind, by, n, status, cache, url) ==
  [kind |-> kind, by |-> by, n |-> n, status |-> status, cache |-> cache,
   url |-> url]

Undefined == Settled("undefined", "", 0, "", NoHash, NoUrl)
ErrorResponse == Settled("response", "error", 0, "", NoHash, NoUrl)
Failure(what) == Settled("rejected", what, 0, "", NoHash, NoUrl)

\* fetch(request): the n-th live fetch of an event rejects or fulfils with
\* a response of some status, as the network decides.
LiveFetch(net, n) ==
  IF net[n] = "reject"
  THEN Settled("rejected", "fetch", n, "", NoHash, NoUrl)
  ELSE Settled("response", "fetch", n, net[n], NoHash, NoUrl)

\* caches.open(name).then(cache => cache.match(url))
CacheMatch(name, url) ==
  IF name \in DOMAIN caches /\ url \in caches[name]
  THEN Settled("response", "cache", 0, "", name, url)
  ELSE Undefined

\* What a branch of the rule engine did: the settled result, the caches it
\* opened, the number of live fetches it issued, the rule that decided, and
\* the arguments it gave to fetchWithFallback, if it called it.
Outcome(result, opened, fetches, rule, fallbackUrl, cacheName) ==
  [result |-> result, opened |-> opened, fetches |-> fetches, rule |-> rule,
   fallbackUrl |-> fallbackUrl, cacheName |-> cacheName]

\* One run of the rule engine: its outcome, the stores it read and wrote
\* and the hash it put into CLIENT_ID_TO_HASH (NoHash: no put).
Run(o, reads, writes, put) ==
  [result |-> o.result, opened |-> o.opened, fetches |-> o.fetches,
   rule |-> o.rule, fallbackUrl |-> o.fallbackUrl, cacheName |-> o.cacheName,
   reads |-> reads, writes |-> writes, put |-> put]

\* ------------------------------------------------------------------ worker
\* Object.keys(parsed.fallback) and parsed.fallback[key]
FallbackKeys(parsed) == [i \in 1..Len(parsed.fallback) |-> parsed.fallback[i][1]]
FallbackValue(parsed, key) ==
  LET i == CHOOSE i \in 1..Len(parsed.fallback) : parsed.fallback[i][1] = key
  IN parsed.fallback[i][2]

Includes(seq, x) == \E i \in 1..Len(seq) : seq[i] = x

getClientUrlForEvent(e) ==
  IF e.clientId # NoClient
  THEN (IF clients[e.clientId] = "live" THEN ClientUrl(e.clientId) ELSE NoUrl)
  ELSE (IF e.referrer # NoUrl THEN e.referrer ELSE e.url)

\* clients.get(id) resolves to undefined for a client that is gone, and
\* client.url then throws.
ClientLookupFails(e) == e.clientId # NoClient /\ clients[e.clientId] # "live"

\* fetchWithFallback, and the variant of it without the .catch().
fetchWithFallback_noCatch(net, fallbackUrl, cacheName) ==
  [result |-> LiveFetch(net, 1), opened |-> {}]

fetchWithFallback(net, fallbackUrl, cacheName) ==
  IF net[1] # "reject"
  THEN [result |-> LiveFetch(net, 1), opened |-> {}]
  ELSE [result |-> CacheMatch(cacheName, fallbackUrl), opened |-> {cacheName}]

\* The versions stored for manifestUrl, [] when there is no record.
Versions(manifestUrl) ==
  IF manifestUrl \in DOMAIN manifestUrlToContents
  THEN manifestUrlToContents[manifestUrl] ELSE <<>>

\* The index of the first version with the hash, 0 when there is none: the
\* reduce keeps the first parsed manifest it finds.
RECURSIVE FirstWithHash(_, _, _)
FirstWithHash(versions, manifestHash, i) ==
  IF i > Len(versions) THEN 0
  ELSE IF versions[i].hash = manifestHash THEN i
       ELSE FirstWithHash(versions, manifestHash, i + 1)

getParsedManifest(manifestUrl, manifestHash) ==
  LET versions == Versions(manifestUrl)
      i == FirstWithHash(versions, manifestHash, 1)
  IN IF i = 0 THEN [found |-> FALSE, text |-> ""]
     ELSE [found |-> TRUE, text |-> versions[i].text]

\* Is the request URL listed in CACHE, or is it the client URL itself?
IsCacheHit(parsed, requestUrl, clientUrl) ==
  Includes(parsed.cache, requestUrl) \/ requestUrl = clientUrl

\* The NETWORK condition, and the variant of it that ignores "*".
NetworkAllows_noStar(parsed, requestUrl) ==
  Includes(parsed.network, requestUrl)

NetworkAllows(parsed, requestUrl) ==
  Includes(parsed.network, requestUrl) \/ Includes(parsed.network, Star)

\* The branch of appCacheBehaviorForEvent taken with the parsed manifest of
\* the client's binding: CACHE, then FALLBACK, then NETWORK, then the error.
\* The variant consults FALLBACK before CACHE.
ApplyManifest_fallbackFirst(e, clientUrl, hash, parsed) ==
  LET fallbackKey == longestMatchingPrefix(FallbackKeys(parsed), e.url)
      fallbackUrl == FallbackValue(parsed, fallbackKey)
  IN IF fallbackKey # <<>>
     THEN LET f == fetchWithFallback(e.net, fallbackUrl, hash)
          IN Outcome(f.result, f.opened, 1, "FALLBACK", fallbackUrl, hash)
     ELSE IF IsCacheHit(parsed, e.url, clientUrl)
          THEN Outcome(CacheMatch(hash, e.url), {hash}, 0, "CACHE", NoUrl,
                       NoHash)
          ELSE IF NetworkAllows(parsed, e.url)
               THEN Outcome(LiveFetch(e.net, 1), {}, 1, "NETWORK", NoUrl,
                            NoHash)
               ELSE Outcome(ErrorResponse, {}, 0, "error", NoUrl, NoHash)

ApplyManifest(e, clientUrl, hash, parsed) ==
  IF IsCacheHit(parsed, e.url, clientUrl)
  THEN Outcome(CacheMatch(hash, e.url), {hash}, 0, "CACHE", NoUrl, NoHash)
  ELSE LET fallbackKey == longestMatchingPrefix(FallbackKeys(parsed), e.url)
           fallbackUrl == FallbackValue(parsed, fallbackKey)
       IN IF fallbackKey # <<>>
          THEN LET f == fetchWithFallback(e.net, fallbackUrl, hash)
               IN Outcome(f.result, f.opened, 1, "FALLBACK", fallbackUrl, hash)
          ELSE IF NetworkAllows(parsed, e.url)
               THEN Outcome(LiveFetch(e.net, 1), {}, 1, "NETWORK", NoUrl,
                            NoHash)
               ELSE Outcome(ErrorResponse, {}, 0, "error", NoUrl, NoHash)

\* store.getAll() of MANIFEST_URL_TO_CONTENTS: the values in key order.
RECURSIVE ValuesInOrder(_)
ValuesInOrder(i) ==
  IF i > Len(ManifestOrder) THEN <<>>
  ELSE IF ManifestOrder[i] \in DOMAIN manifestUrlToContents
       THEN <<manifestUrlToContents[ManifestOrder[i]]>> \o ValuesInOrder(i + 1)
       ELSE ValuesInOrder(i + 1)

GetAllManifests == ValuesInOrder(1)

\* The reducer over longestForEach: a later manifest replaces the winner
\* unless its prefix is strictly shorter. In the variant the earlier
\* manifest keeps the win on equal length.
PickLongest_firstWins(soFar, current, i) ==
  IF Len(current) > Len(soFar.prefix)
  THEN [prefix |-> current, index |-> i] ELSE soFar

PickLongest(soFar, current, i) ==
  IF Len(current) >= Len(soFar.prefix)
  THEN [prefix |-> current, index |-> i] ELSE soFar

RECURSIVE ReduceLongest(_, _, _)
ReduceLongest(soFar, longestForEach, i) ==
  IF i > Len(longestForEach) THEN soFar
  ELSE ReduceLongest(PickLongest(soFar, longestForEach[i], i),
                     longestForEach, i + 1)

\* The branch taken when the client URL has no binding: the longest FALLBACK
\* prefix among the latest versions of all the manifests.
CrossManifestFallback(e) ==
  LET manifests == GetAllManifests
      longestForEach ==
        [i \in 1..Len(manifests) |->
           longestMatchingPrefix(
             FallbackKeys(Parsed(Last(manifests[i]).text)), e.url)]
      longestOverall ==
        ReduceLongest([prefix |-> <<>>, index |-> 1], longestForEach, 1)
      fallbackKey == longestOverall.prefix
  IN IF fallbackKey # <<>>
     THEN LET winningManifestVersion == Last(manifests[longestOverall.index])
              hash == winningManifestVersion.hash
              fallbackUrl ==
                FallbackValue(Parsed(winningManifestVersion.text), fallbackKey)
              f == fetchWithFallback(e.net, fallbackUrl, hash)
          IN Outcome(f.result, f.opened, 1, "FALLBACK", fallbackUrl, hash)
     ELSE Outcome(LiveFetch(e.net, 1), {}, 1, "fetch", NoUrl, NoHash)

\* request.headers.get('X-Use-Fetch') === 'true', and the variant that
\* never sees the header.
UsesFetchHeader_never(e) == FALSE

UsesFetchHeader(e) == e.xUseFetch

Failed(what) == Outcome(Failure(what), {}, 0, "failure", NoUrl, NoHash)

appCacheBehaviorForEvent(e) ==
  IF UsesFetchHeader(e)
  THEN Run(Outcome(LiveFetch(e.net, 1), {}, 1, "X-Use-Fetch", NoUrl, NoHash),
           {}, {}, NoHash)
  ELSE IF ClientLookupFails(e)
  THEN Run(Failed("TypeError"), {}, {}, NoHash)
  ELSE
    LET clientUrl == getClientUrlForEvent(e)
    IN IF clientUrl = NoUrl
       THEN Run(Outcome(Undefined, {}, 0, "none", NoUrl, NoHash), {}, {},
                NoHash)
       ELSE IF clientUrl \in DOMAIN pathToManifest
       THEN LET manifestForClient == pathToManifest[clientUrl]
                hash == manifestForClient.hash
                put == IF e.clientId # NoClient THEN hash ELSE NoHash
                writes == IF e.clientId # NoClient
                          THEN {"CLIENT_ID_TO_HASH"} ELSE {}
            IN IF e.fail = "MANIFEST_URL_TO_CONTENTS"
               THEN Run(Failed("tx"), {"PATH_TO_MANIFEST"}, writes, put)
               ELSE
                 LET found == getParsedManifest(manifestForClient.url, hash)
                     reads == {"PATH_TO_MANIFEST", "MANIFEST_URL_TO_CONTENTS"}
                 IN IF ~found.found
                    THEN Run(Failed("TypeError"), reads, writes, put)
                    ELSE Run(ApplyManifest(e, clientUrl, hash,
                                           Parsed(found.text)),
                             reads, writes, put)
       ELSE IF e.fail = "MANIFEST_URL_TO_CONTENTS"
            THEN Run(Failed("tx"), {"PATH_TO_MANIFEST"}, {}, NoHash)
            ELSE Run(CrossManifestFallback(e),
                     {"PATH_TO_MANIFEST", "MANIFEST_URL_TO_CONTENTS"}, {},
                     NoHash)

\* The promise chain of legacyAppCacheBehavior: the response the event is
\* answered with, and whether cleanupOldCaches() was called. The variant
\* has no .catch().
legacyAppCacheBehavior_noCatch(e) ==
  LET run == appCacheBehaviorForEvent(e)
  IN [run |-> run, response |-> run.result,
      cleanup |-> run.result.kind # "rejected" /\ e.mode = "navigate"]

legacyAppCacheBehavior(e) ==
  LET run == appCacheBehaviorForEvent(e)
  IN IF run.result.kind # "rejected"
     THEN [run |-> run, response |-> run.result,
           cleanup |-> e.mode = "navigate"]
     ELSE [run |-> run, response |-> LiveFetch(e.net, run.fetches + 1),
           cleanup |-> FALSE]

\* ------------------------------------------------------------------ sweep
SweepIdle == [pc |-> "idle", active |-> {}, notInUse |-> {}, toDelete |-> {}]

\* versions.slice(0, -1).map(version => version.hash), over all manifests;
\* the variant slices the first version off instead of the last.
OlderHashesOf_sliceFirst(versions) ==
  {versions[i].hash : i \in 2..Len(versions)}

OlderHashesOf(versions) == {versions[i].hash : i \in 1..(Len(versions) - 1)}

getHashesOfOlderVersions ==
  UNION {OlderHashesOf(manifestUrlToContents[m]) :
           m \in DOMAIN manifestUrlToContents}

\* ------------------------------------------------------------------ events
\* The outcomes of the first and of the second live fetch of one event; the
\* second is only issued after the first one rejected or was never issued.
NetOutcomes ==
  {<<"200", "200">>, <<"500", "200">>, <<"reject", "200">>,
   <<"reject", "reject">>}

\* The store whose transaction fails during the event, if any.
Failures == {"none", "MANIFEST_URL_TO_CONTENTS"}

\* The URLs that are documents a tab can navigate to.
Documents == {P1, Uxc}

\* A navigation request is for a document and carries no clientId and no
\* X-Use-Fetch header; a subresource request carries the id of its client,
\* or none where the browser has no client ids.
FetchEvents ==
  {e \in [url : RequestUrls, clientId : {NoClient} \cup ClientIds,
          referrer : {NoUrl, P1}, xUseFetch : BOOLEAN,
          mode : {"navigate", "no-cors"}, net : NetOutcomes, fail : Failures] :
     /\ e.clientId # NoClient => (e.referrer = NoUrl /\ e.mode = "no-cors")
     /\ e.mode = "navigate" => (e.url \in Documents /\ ~e.xUseFetch)}

\* The events that differ in what they do to the stores and the sweep only.
PlainEvents ==
  {e \in FetchEvents :
     /\ e.url = P1 /\ ~e.xUseFetch /\ e.fail = "none"
     /\ e.net = <<"200", "200">>}

NoEvent == <<>>

\* A fetch event is dispatched and legacyAppCacheBehavior answers it. A
\* navigation starts cleanupOldCaches(); one sweep runs at a time.
FetchEvent(e) ==
  /\ ev = NoEvent
  /\ e.clientId # NoClient => clients[e.clientId] # "unborn"
  /\ LET answer == legacyAppCacheBehavior(e)
         run == answer.run
     IN /\ answer.cleanup => sweep.pc = "idle"
        /\ ev' = <<[event |-> e, run |-> run, response |-> answer.response,
                     cleanup |-> answer.cleanup]>>
        /\ clientIdToHash' =
             IF run.put # NoHash
             THEN Put(clientIdToHash, e.clientId, run.put)
             ELSE clientIdToHash
        /\ caches' = caches @@ [h \in run.opened |-> {}]
        /\ sweep' = IF answer.cleanup
                    THEN [SweepIdle EXCEPT !.pc = "matchAll"] ELSE sweep
  /\ UNCHANGED <<pathToManifest, manifestUrlToContents, clients, prefixVars, page, agentVars>>

\* event.respondWith() hands the response to the browser.
Respond ==
  /\ ev # NoEvent
  /\ ev' = NoEvent
  /\ UNCHANGED <<pathToManifest, manifestUrlToContents, clientIdToHash,
                 caches, clients, sweep, prefixVars, page, agentVars>>

\* self.clients.matchAll(): the ids of the clients alive now.
SweepMatchAll ==
  /\ ev = NoEvent
  /\ sweep.pc = "matchAll"
  /\ sweep' = [sweep EXCEPT !.pc = "cleanup",
                            !.active = {c \in ClientIds : clients[c] = "live"}]
  /\ UNCHANGED <<pathToManifest, manifestUrlToContents, clientIdToHash,
                 caches, clients, ev, prefixVars, page, agentVars>>

\* cleanupClientIdAndHash: the known ids that are not among the active ones
\* are deleted, and their hashes are the hashes not in use.
cleanupClientIdAndHash ==
  /\ ev = NoEvent
  /\ sweep.pc = "cleanup"
  /\ LET idsOfInactiveClients == DOMAIN clientIdToHash \ sweep.active
     IN /\ sweep' = [sweep EXCEPT
                       !.pc = "older",
                       !.notInUse = {clientIdToHash[id] :
                                       id \in idsOfInactiveClients}]
        /\ clientIdToHash' = Delete(clientIdToHash, idsOfInactiveClients)
  /\ UNCHANGED <<pathToManifest, manifestUrlToContents, caches, clients, ev,
                 prefixVars, page, agentVars>>

\* cleanupOldCaches: the older hashes that are not in use.
SweepOlderVersions ==
  /\ ev = NoEvent
  /\ sweep.pc = "older"
  /\ sweep' = [sweep EXCEPT
                 !.pc = "delete",
                 !.toDelete = getHashesOfOlderVersions \cap sweep.notInUse]
  /\ UNCHANGED <<pathToManifest, manifestUrlToContents, clientIdToHash,
                 caches, clients, ev, prefixVars, page, agentVars>>

\* cleanupOldCaches: caches.delete(cacheId) for each of them.
SweepDeleteCaches ==
  /\ ev = NoEvent
  /\ sweep.pc = "delete"
  /\ caches' = Delete(caches, sweep.toDelete)
  /\ sweep' = SweepIdle
  /\ UNCHANGED <<pathToManifest, manifestUrlToContents, clientIdToHash,
                 clients, ev, prefixVars, page, agentVars>>

\* ------------------------------------------------------------------ page and tabs
\* The URLs the Installer pre-caches for a version.
PrecacheUrls(t) ==
  Range(Parsed(t).cache) \cup
  {Parsed(t).fallback[i][2] : i \in 1..Len(Parsed(t).fallback)}

\* caches.open(name) creates the cache; the fetched URLs are put into it.
AddToCache(name, urls) ==
  LET old == IF name \in DOMAIN caches THEN caches[name] ELSE {}
  IN Put(caches, name, old \cup urls)

\* Manifest Poller and Installer of a page whose manifest attribute is m:
\* the fetched text t is installed unless it is the current version.
ManifestPoller(m, t) ==
  /\ ev = NoEvent
  /\ t \in ServerTexts(m)
  /\ Len(Versions(m)) < MaxHistory
  /\ (IF Versions(m) = <<>> THEN TRUE ELSE Last(Versions(m)).hash # Hash(t))
  /\ manifestUrlToContents' =
       Put(manifestUrlToContents, m, Append(Versions(m), ManifestVersion(t)))
  /\ caches' = AddToCache(Hash(t), PrecacheUrls(t))
  /\ UNCHANGED <<pathToManifest, clientIdToHash, clients, sweep, ev,
                 prefixVars, page, agentVars>>

\* Association Recorder of the page P1 when its manifest attribute is m.
AssociationRecorder(m) ==
  /\ ev = NoEvent
  /\ Versions(m) # <<>>
  /\ LET hash == Last(Versions(m)).hash
     IN /\ pathToManifest' = Put(pathToManifest, P1, [url |-> m, hash |-> hash])
        /\ caches' = AddToCache(hash, {P1})
  /\ UNCHANGED <<manifestUrlToContents, clientIdToHash, clients, sweep, ev,
                 prefixVars, page, agentVars>>

\* A tab on P1 is opened, and closed.
ClientOpens(c) ==
  /\ ev = NoEvent
  /\ clients[c] = "unborn"
  /\ (IF c = 1 THEN TRUE ELSE clients[c - 1] # "unborn")
  /\ clients' = [clients EXCEPT ![c] = "live"]
  /\ UNCHANGED <<pathToManifest, manifestUrlToContents, clientIdToHash,
                 caches, sweep, ev, prefixVars, page, agentVars>>

ClientCloses(c) ==
  /\ ev = NoEvent
  /\ clients[c] = "live"
  /\ clients' = [clients EXCEPT ![c] = "gone"]
  /\ UNCHANGED <<pathToManifest, manifestUrlToContents, clientIdToHash,
                 caches, sweep, ev, prefixVars, page, agentVars>>

\* ------------------------------------------------------------------ specification
Init ==
  /\ pathToManifest = Empty
  /\ manifestUrlToContents = Empty
  /\ clientIdToHash = Empty
  /\ caches = Empty
  /\ clients = [c \in ClientIds |-> "unborn"]
  /\ sweep = SweepIdle
  /\ ev = NoEvent
  /\ lmpPrefixes = <<>>
  /\ lmpUrl = <<>>
  /\ lmpResult = [done |-> TRUE, value |-> <<>>]
  /\ page = PageIdle
  /\ install = InstallIdle
  /\ tabs = TabsIdle

Sweep ==
  \/ SweepMatchAll
  \/ cleanupClientIdAndHash
  \/ SweepOlderVersions
  \/ SweepDeleteCaches

PageLoad ==
  \/ \E m \in ManifestUrls, t \in Texts : ManifestPoller(m, t)
  \/ \E m \in ManifestUrls : AssociationRecorder(m)

\* The rule engine, on every fetch event, with one tab on the page.
Next ==
  \/ \E e \in FetchEvents : FetchEvent(e)
  \/ Respond
  \/ Sweep
  \/ PageLoad
  \/ ClientOpens(1)
  \/ ClientCloses(1)

Spec == Init /\ [][Next]_vars

\* The sweep, interleaved with the page loads, the tabs and their events.
NextSweep ==
  \/ \E e \in PlainEvents : FetchEvent(e)
  \/ Respond
  \/ Sweep
  \/ PageLoad
  \/ \E c \in ClientIds : ClientOpens(c)
  \/ \E c \in ClientIds : ClientCloses(c)

SpecSweep == Init /\ [][NextSweep]_vars

\* ------------------------------------------------------------------ longestMatchingPrefix alone
\* The strings over two characters of length at most n.
RECURSIVE StringsUpTo(_)
StringsUpTo(n) ==
  IF n = 0 THEN {<<>>}
  ELSE LET shorter == StringsUpTo(n - 1)
       IN shorter \cup {Append(w, c) : w \in shorter, c \in {"a", "b"}}

RECURSIVE ListsUpTo(_, _)
ListsUpTo(n, S) ==
  IF n = 0 THEN {<<>>}
  ELSE LET shorter == ListsUpTo(n - 1, S)
       IN shorter \cup {Append(l, x) : l \in shorter, x \in S}

NotComputed == [done |-> FALSE, value |-> <<>>]

InitPrefix ==
  /\ pathToManifest = Empty
  /\ manifestUrlToContents = Empty
  /\ clientIdToHash = Empty
  /\ caches = Empty
  /\ clients = [c \in ClientIds |-> "unborn"]
  /\ sweep = SweepIdle
  /\ ev = NoEvent
  /\ lmpPrefixes \in ListsUpTo(MaxPrefixes, StringsUpTo(MaxUrlLen))
  /\ lmpUrl \in StringsUpTo(MaxUrlLen + 1)
  /\ lmpResult = NotComputed
  /\ page = PageIdle
  /\ install = InstallIdle
  /\ tabs = TabsIdle

CallLongestMatchingPrefix ==
  /\ ~lmpResult.done
  /\ lmpResult' = [done |-> TRUE,
                   value |-> longestMatchingPrefix(lmpPrefixes, lmpUrl)]
  /\ UNCHANGED <<storeVars, lmpPrefixes, lmpUrl, page, agentVars>>

NextPrefix == CallLongestMatchingPrefix

SpecPrefix == InitPrefix /\ [][NextPrefix]_vars

\* ------------------------------------------------------------------ claims
\* p is a raw string prefix of u.
IsPrefix(p, u) ==
  /\ Len(p) <= Len(u)
  /\ \A j \in 1..Len(p) : p[j] = u[j]

\* The positions of the prefixes of K that u starts with.
Matching(K, u) == {i \in 1..Len(K) : IsPrefix(K[i], u)}

\* The last position among the longest matching ones.
LastLongest(K, u) ==
  CHOOSE i \in Matching(K, u) :
    \A j \in Matching(K, u) :
      Len(K[j]) < Len(K[i]) \/ (Len(K[j]) = Len(K[i]) /\ j <= i)

\* C8: longestMatchingPrefix(K, u) is the element of K that u starts with of
\* maximum length, the last one of that length in K, and the empty string
\* when u starts with no element of K.
C8_LongestPrefixSelection ==
  lmpResult.done =>
    IF Matching(lmpPrefixes, lmpUrl) = {}
    THEN lmpResult.value = <<>>
    ELSE /\ lmpResult.value = lmpPrefixes[LastLongest(lmpPrefixes, lmpUrl)]
         /\ IsPrefix(lmpResult.value, lmpUrl)
         /\ \A i \in Matching(lmpPrefixes, lmpUrl) :
              Len(lmpPrefixes[i]) <= Len(lmpResult.value)

\* A longer matching prefix that comes before a shorter matching one won.
C8_Witness ==
  /\ lmpResult.done
  /\ Len(lmpPrefixes) = 2
  /\ Matching(lmpPrefixes, lmpUrl) = {1, 2}
  /\ Len(lmpPrefixes[1]) > Len(lmpPrefixes[2])
  /\ Len(lmpPrefixes[2]) > 0
  /\ lmpResult.value = lmpPrefixes[1]

\* ---- the event being answered, for the claims about the rule engine
InFlight == ev # NoEvent
TheEvent == ev[1].event
TheRun == ev[1].run
TheResponse == ev[1].response

\* The client URL the event resolves to, when the client lookup succeeds.
ClientUrlOf(e) ==
  IF e.clientId # NoClient THEN ClientUrl(e.clientId)
  ELSE IF e.referrer # NoUrl THEN e.referrer ELSE e.url

\* The event goes through the resolution rules and nothing fails on the way.
Resolves(e) ==
  /\ ~e.xUseFetch
  /\ e.fail = "none"
  /\ e.clientId # NoClient => clients[e.clientId] = "live"

HasBinding(e) == ClientUrlOf(e) \in DOMAIN pathToManifest
BindingOf(e) == pathToManifest[ClientUrlOf(e)]

BoundVersionFound(e) ==
  /\ HasBinding(e)
  /\ \E v \in Range(Versions(BindingOf(e).url)) : v.hash = BindingOf(e).hash

BoundParsed(e) ==
  Parsed((CHOOSE v \in Range(Versions(BindingOf(e).url)) :
            v.hash = BindingOf(e).hash).text)

ListedInCache(parsed, e) ==
  e.url \in Range(parsed.cache) \/ e.url = ClientUrlOf(e)

MatchingKeys(parsed, u) ==
  {kv[1] : kv \in {x \in Range(parsed.fallback) : IsPrefix(x[1], u)}}

LongestKey(parsed, u) ==
  CHOOSE k \in MatchingKeys(parsed, u) :
    \A k2 \in MatchingKeys(parsed, u) : Len(k2) <= Len(k)

FallbackUrlOf(parsed, k) ==
  (CHOOSE kv \in Range(parsed.fallback) : kv[1] = k)[2]

\* Network first, and the cache entry of the fallback URL when it rejects.
Brokered(net, fallbackUrl, cacheName) ==
  IF net[1] # "reject" THEN LiveFetch(net, 1)
  ELSE CacheMatch(cacheName, fallbackUrl)

\* C3: a request with X-Use-Fetch: true gets exactly the live fetch, and the
\* engine touches no store and no cache for it.
C3_EscapeHatch ==
  (InFlight /\ TheEvent.xUseFetch) =>
    /\ TheRun.result = LiveFetch(TheEvent.net, 1)
    /\ TheRun.fetches = 1
    /\ TheRun.reads = {} /\ TheRun.writes = {}
    /\ TheRun.put = NoHash
    /\ TheRun.opened = {}

\* An X-Use-Fetch request for a URL the client's manifest lists in CACHE,
\* from a tab, while the store cannot be read.
C3_Witness ==
  /\ InFlight /\ TheEvent.xUseFetch
  /\ TheEvent.clientId # NoClient
  /\ BoundVersionFound(TheEvent)
  /\ TheEvent.url \in Range(BoundParsed(TheEvent).cache)
  /\ BindingOf(TheEvent).hash \in DOMAIN caches
  /\ TheEvent.url \in caches[BindingOf(TheEvent).hash]
  /\ TheEvent.fail # "none"
  /\ TheRun.result.by = "fetch"

\* C4: with a binding whose version is found, a request listed in CACHE, or
\* for the client URL itself, resolves to the lookup in the cache named
\* binding.hash with no live fetch, whatever FALLBACK and NETWORK contain.
C4_CacheHit ==
  (/\ InFlight /\ Resolves(TheEvent) /\ BoundVersionFound(TheEvent)
   /\ ListedInCache(BoundParsed(TheEvent), TheEvent)) =>
    /\ TheRun.result = CacheMatch(BindingOf(TheEvent).hash, TheEvent.url)
    /\ TheRun.fetches = 0
    /\ TheResponse = TheRun.result

\* A cached URL that also matches a FALLBACK prefix and is listed in NETWORK
\* was answered from the cache.
C4_Witness ==
  /\ InFlight /\ Resolves(TheEvent) /\ BoundVersionFound(TheEvent)
  /\ TheEvent.url \in Range(BoundParsed(TheEvent).cache)
  /\ MatchingKeys(BoundParsed(TheEvent), TheEvent.url) # {}
  /\ TheEvent.url \in Range(BoundParsed(TheEvent).network)
  /\ TheRun.result.by = "cache"
  /\ TheRun.result.cache = BindingOf(TheEvent).hash

\* Nothing of the bound version matches the request.
NothingMatches(e) ==
  /\ BoundVersionFound(e)
  /\ ~ListedInCache(BoundParsed(e), e)
  /\ MatchingKeys(BoundParsed(e), e.url) = {}
  /\ e.url \notin Range(BoundParsed(e).network)
  /\ Star \notin Range(BoundParsed(e).network)

\* Only NETWORK matches the request.
OnlyNetworkMatches(e) ==
  /\ BoundVersionFound(e)
  /\ ~ListedInCache(BoundParsed(e), e)
  /\ MatchingKeys(BoundParsed(e), e.url) = {}
  /\ \/ e.url \in Range(BoundParsed(e).network)
     \/ Star \in Range(BoundParsed(e).network)

\* C5: the engine returns Response.error() exactly when the client is bound
\* and CACHE, FALLBACK and NETWORK of the bound version all fail to match;
\* when only NETWORK matches (the URL or "*") the result is a live fetch.
C5_OfflineError ==
  InFlight =>
    /\ (TheRun.result = ErrorResponse) =>
         (Resolves(TheEvent) /\ NothingMatches(TheEvent))
    /\ (Resolves(TheEvent) /\ NothingMatches(TheEvent)) =>
         (TheRun.result = ErrorResponse /\ TheRun.fetches = 0)
    /\ (Resolves(TheEvent) /\ OnlyNetworkMatches(TheEvent)) =>
         TheRun.result = LiveFetch(TheEvent.net, 1)

\* The error sentinel was returned.
C5_Witness ==
  /\ InFlight /\ Resolves(TheEvent) /\ NothingMatches(TheEvent)
  /\ TheResponse = ErrorResponse

\* The request matches a FALLBACK prefix of the bound version and is no
\* CACHE hit.
FallbackApplies(e) ==
  /\ Resolves(e) /\ BoundVersionFound(e)
  /\ ~ListedInCache(BoundParsed(e), e)
  /\ MatchingKeys(BoundParsed(e), e.url) # {}

\* C6: for such a request the live fetch comes first; a fulfilled fetch is
\* returned as is, whatever its status, and no cache is read; a rejected
\* one gives the entry of the fallback URL of the longest matching prefix
\* in the cache named by the binding's hash.
C6_FallbackOnOffline ==
  (InFlight /\ FallbackApplies(TheEvent)) =>
    LET parsed == BoundParsed(TheEvent)
        fallbackUrl == FallbackUrlOf(parsed, LongestKey(parsed, TheEvent.url))
    IN /\ TheRun.fetches = 1
       /\ TheEvent.net[1] # "reject" =>
            (TheRun.result = LiveFetch(TheEvent.net, 1) /\ TheRun.opened = {})
       /\ TheEvent.net[1] = "reject" =>
            /\ TheRun.result =
                 CacheMatch(BindingOf(TheEvent).hash, fallbackUrl)
            /\ TheRun.opened = {BindingOf(TheEvent).hash}

\* Offline, with two matching prefixes, the stored response of the longer
\* prefix's fallback URL was returned.
C6_Witness ==
  /\ InFlight /\ FallbackApplies(TheEvent)
  /\ Cardinality(MatchingKeys(BoundParsed(TheEvent), TheEvent.url)) = 2
  /\ TheEvent.net[1] = "reject"
  /\ TheResponse = Settled("response", "cache", 0, "",
                           BindingOf(TheEvent).hash, Uf3)

\* C7: when the live fetch of fetchWithFallback rejects and the cache has no
\* entry for the fallback URL, the result is the rejection of that fetch.
C7_FallbackMissRejects ==
  (/\ InFlight /\ TheRun.rule = "FALLBACK" /\ TheEvent.net[1] = "reject"
   /\ CacheMatch(TheRun.cacheName, TheRun.fallbackUrl) = Undefined) =>
    TheRun.result = LiveFetch(TheEvent.net, 1)

\* The manifests with a record, in the order getAll() enumerates them.
StoredManifests == {i \in 1..Len(ManifestOrder) :
                      ManifestOrder[i] \in DOMAIN manifestUrlToContents}
CurrentOf(i) == Last(manifestUrlToContents[ManifestOrder[i]])

\* Those whose current version has a FALLBACK prefix matching u.
Candidates(u) ==
  {i \in StoredManifests : MatchingKeys(Parsed(CurrentOf(i).text), u) # {}}

LongestLen(i, u) ==
  Len(LongestKey(Parsed(CurrentOf(i).text), u))

Winner(u) ==
  CHOOSE i \in Candidates(u) :
    \A j \in Candidates(u) :
      \/ LongestLen(j, u) < LongestLen(i, u)
      \/ (LongestLen(j, u) = LongestLen(i, u) /\ j <= i)

\* C9: without a binding, the current version with the longest matching
\* FALLBACK prefix wins, the later manifest on equal length, and the
\* request goes to fetchWithFallback with its fallback URL and its hash;
\* with no matching prefix the result is a live fetch.
C9_CrossManifestFallback ==
  (InFlight /\ Resolves(TheEvent) /\ ~HasBinding(TheEvent)) =>
    IF Candidates(TheEvent.url) = {}
    THEN /\ TheRun.result = LiveFetch(TheEvent.net, 1)
         /\ TheRun.rule # "FALLBACK"
    ELSE LET version == CurrentOf(Winner(TheEvent.url))
             parsed == Parsed(version.text)
             fallbackUrl ==
               FallbackUrlOf(parsed, LongestKey(parsed, TheEvent.url))
         IN /\ TheRun.rule = "FALLBACK"
            /\ TheRun.fallbackUrl = fallbackUrl
            /\ TheRun.cacheName = version.hash
            /\ TheRun.result =
                 Brokered(TheEvent.net, fallbackUrl, version.hash)

\* Two manifests match with prefixes of the same length, the first one has
\* an older version too, and the later manifest's cache gave the response.
C9_Witness ==
  /\ InFlight /\ Resolves(TheEvent) /\ ~HasBinding(TheEvent)
  /\ Candidates(TheEvent.url) = {1, 2}
  /\ LongestLen(1, TheEvent.url) = LongestLen(2, TheEvent.url)
  /\ CurrentOf(1).hash # CurrentOf(2).hash
  /\ Len(manifestUrlToContents[ManifestOrder[1]]) = 2
  /\ TheEvent.net[1] = "reject"
  /\ TheResponse.by = "cache"
  /\ TheResponse.cache = CurrentOf(2).hash

\* C10: whenever the rule engine fails, legacyAppCacheBehavior answers with
\* a live fetch of the request, and it never rejects with the engine's own
\* failure.
C10_FailureBecomesFetch ==
  InFlight =>
    /\ TheRun.result.kind = "rejected" =>
         TheResponse = LiveFetch(TheEvent.net, TheRun.fetches + 1)
    /\ TheResponse.kind = "rejected" =>
         (TheResponse.by = "fetch" /\ TheResponse.n = TheRun.fetches + 1)

\* A store transaction failed for a bound client and the response is the
\* one of the live fetch.
C10_Witness ==
  /\ InFlight
  /\ TheRun.result = Failure("tx")
  /\ HasBinding(TheEvent)
  /\ TheResponse = Settled("response", "fetch", 1, "200", NoHash, NoUrl)

\* The caches a step deletes.
DeletedCaches == DOMAIN caches \ DOMAIN caches'

\* The clients that the sweep found with clients.matchAll(), that are still
\* alive, and that CLIENT_ID_TO_HASH maps to h.
PinnedBy(h) ==
  {c \in sweep.active \cap DOMAIN clientIdToHash :
     clients[c] = "live" /\ clientIdToHash[c] = h}

\* C1: no step deletes the cache named h while a clientId that is among
\* clients.matchAll() still maps to h in CLIENT_ID_TO_HASH.
C1_PinnedCacheKept ==
  [][\A h \in DeletedCaches : PinnedBy(h) = {}]_vars

\* The manifest URLs whose current (last) version has the hash h.
CurrentIn(h) ==
  {m \in DOMAIN manifestUrlToContents :
     Last(manifestUrlToContents[m]).hash = h}

\* C2: no step deletes the cache named h while h is the hash of the current
\* version of some manifest URL.
C2_CurrentCacheKept ==
  [][\A h \in DeletedCaches : CurrentIn(h) = {}]_vars

\* ------------------------------------------------------------------ the rule engine over stored contents
\* The histories MANIFEST_URL_TO_CONTENTS can hold for m: the texts its
\* server answers with, a text being installed when it differs from the
\* current one.
HistoriesOf(m) ==
  {[i \in 1..Len(ts) |-> ManifestVersion(ts[i])] :
     ts \in {l \in ListsUpTo(MaxHistory, ServerTexts(m)) :
               /\ l # <<>>
               /\ \A i \in 1..(Len(l) - 1) : l[i] # l[i + 1]}}

AllHistories == UNION {HistoriesOf(m) : m \in ManifestUrls}

\* The contents of MANIFEST_URL_TO_CONTENTS: a record may be absent, which
\* getParsedManifest reads as versions || [].
StoredContents ==
  UNION {{f \in [D -> AllHistories] : \A m \in D : f[m] \in HistoriesOf(m)} :
           D \in SUBSET ManifestUrls}

\* The contents of PATH_TO_MANIFEST: the page is bound to a manifest URL and
\* a hash, whether or not the history of that URL still has the hash.
StoredBindings ==
  {Empty} \cup
  {(P1 :> [url |-> m, hash |-> h]) : m \in ManifestUrls, h \in Hashes}

TextOf(h) == CHOOSE t \in Texts : Hash(t) = h

\* Cache Storage: any of the caches the installations populated.
StoredCaches ==
  {[h \in H |-> PrecacheUrls(TextOf(h)) \cup {P1}] : H \in SUBSET Hashes}

InitStored ==
  /\ pathToManifest \in StoredBindings
  /\ manifestUrlToContents \in StoredContents
  /\ clientIdToHash = Empty
  /\ caches \in StoredCaches
  /\ clients = [c \in ClientIds |-> "unborn"]
  /\ sweep = SweepIdle
  /\ ev = NoEvent
  /\ lmpPrefixes = <<>>
  /\ lmpUrl = <<>>
  /\ lmpResult = [done |-> TRUE, value |-> <<>>]
  /\ page = PageIdle
  /\ install = InstallIdle
  /\ tabs = TabsIdle

NextStored ==
  \/ \E e \in FetchEvents : FetchEvent(e)
  \/ Respond
  \/ Sweep

SpecStored == InitStored /\ [][NextStored]_vars

\* What the cross-manifest fallback search answers the event with.
CrossManifestAnswer(e) ==
  IF Candidates(e.url) = {}
  THEN LiveFetch(e.net, 1)
  ELSE LET version == CurrentOf(Winner(e.url))
           parsed == Parsed(version.text)
       IN Brokered(e.net, FallbackUrlOf(parsed, LongestKey(parsed, e.url)),
                   version.hash)

\* C11: when the client URL has a binding whose hash is in no version of the
\* bound manifest's history, the event is answered as without a binding, by
\* the cross-manifest fallback search.
C11_PrunedFallsThrough ==
  (InFlight /\ Resolves(TheEvent) /\ HasBinding(TheEvent)
     /\ ~BoundVersionFound(TheEvent)) =>
    TheResponse = CrossManifestAnswer(TheEvent)

\* The cache named by the event's bound hash has an entry for its URL.
HasEntry(e) ==
  /\ BindingOf(e).hash \in DOMAIN caches
  /\ e.url \in caches[BindingOf(e).hash]

\* C12: when the CACHE rule selects the per-version cache and that cache has
\* no entry for the request URL, the event is answered with a live fetch of
\* the request, never with an undefined result.
C12_MissingEntryFetches ==
  (InFlight /\ Resolves(TheEvent) /\ BoundVersionFound(TheEvent)
     /\ ListedInCache(BoundParsed(TheEvent), TheEvent)
     /\ ~HasEntry(TheEvent)) =>
    /\ TheResponse.kind # "undefined"
    /\ TheResponse.by = "fetch"

\* ------------------------------------------------------------------ the page agent of the repository
\* constants.CACHE_NAME: constants.js exports no such key, so caches.open
\* receives undefined, which names the cache "undefined".
CACHE_NAME == "undefined"

\* What the fetch of one URL by addToCache ends with: fetch rejects, or
\* fulfils with a status and a Cache-Control header (absent, no-store, or
\* another value). A 3xx answer to a request with redirect: 'manual' is
\* the filtered redirect response, "redirect": status 0 and no headers.
UrlOutcomes ==
  {[status |-> "200", cacheControl |-> "max-age"],
   [status |-> "200", cacheControl |-> "absent"],
   [status |-> "200", cacheControl |-> "no-store"],
   [status |-> "404", cacheControl |-> "absent"],
   [status |-> "500", cacheControl |-> "max-age"],
   [status |-> "500", cacheControl |-> "no-store"],
   [status |-> "redirect", cacheControl |-> "absent"],
   [status |-> "reject", cacheControl |-> "absent"]}

\* The then/catch of addToCache for one URL: "delete", "put", or "keep" when
\* nothing is done. headers.get('Cache-Control') is null for an absent
\* header, .indexOf then throws, and the catch swallows it.
CacheEffect(o) ==
  IF o.status = "reject" THEN "keep"
  ELSE IF o.status \in {"404", "410"} THEN "delete"
  ELSE IF o.cacheControl = "absent" THEN "keep"
  ELSE IF o.cacheControl = "no-store" THEN "delete"
  ELSE IF o.status = "200" THEN "put"
  ELSE "keep"

\* The entries of the cache after the URLs from the i-th on were handled.
RECURSIVE ApplyOutcomes(_, _, _, _)
ApplyOutcomes(entries, urls, outcomes, i) ==
  IF i > Len(urls) THEN entries
  ELSE LET effect == CacheEffect(outcomes[i])
           next == IF effect = "put" THEN entries \cup {urls[i]}
                   ELSE IF effect = "delete" THEN entries \ {urls[i]}
                   ELSE entries
       IN ApplyOutcomes(next, urls, outcomes, i + 1)

\* addToCache(urls): Cache Storage after it, caches.open creating the cache.
addToCache(urls, outcomes) ==
  LET old == IF CACHE_NAME \in DOMAIN caches THEN caches[CACHE_NAME] ELSE {}
  IN Put(caches, CACHE_NAME, ApplyOutcomes(old, urls, outcomes, 1))

\* parsedManifest.cache.concat(fallbackUrls)
CacheAndFallbackUrls(parsed) ==
  parsed.cache \o
  [i \in 1..Len(parsed.fallback) |-> parsed.fallback[i][2]]

UrlsToCache(t) == CacheAndFallbackUrls(Parsed(t))

\* idbEntryForManifest ? idbEntryForManifest.text : ''
StoredText(m) ==
  IF m \in DOMAIN manifestUrlToContents
  THEN manifestUrlToContents[m].text ELSE ""

\* manifestTexts[0] !== manifestTexts[1], and the variant that always
\* updates.
TextsDiffer_always(fetched, stored) == TRUE

TextsDiffer(fetched, stored) == fetched # stored

\* The record performManifestUpdate puts under the manifest URL.
ManifestRecord(t) == [text |-> t, parsed |-> Parsed(t)]

\* handlePossibleManifestUpdate, with performManifestUpdate when the fetched
\* text t differs from the stored one.
handlePossibleManifestUpdate(m, t, outcomes) ==
  /\ Len(page.polls[m]) < MaxPolls
  /\ IF TextsDiffer(t, StoredText(m))
     THEN /\ manifestUrlToContents' =
               Put(manifestUrlToContents, m, ManifestRecord(t))
          /\ caches' = addToCache(UrlsToCache(t), outcomes)
          /\ page' = [polls |-> [page.polls EXCEPT ![m] = Append(@, t)],
                      installed |->
                        [page.installed EXCEPT ![m] = Append(@, t)]]
     ELSE /\ UNCHANGED <<manifestUrlToContents, caches>>
          /\ page' = [page EXCEPT !.polls[m] = Append(@, t)]
  /\ UNCHANGED <<pathToManifest, clientIdToHash, clients, sweep, ev,
                 prefixVars, agentVars>>

\* updateManifestAssociationForCurrentPage, on the page P1.
updateManifestAssociationForCurrentPage(m, outcomes) ==
  /\ pathToManifest' = Put(pathToManifest, P1, m)
  /\ caches' = addToCache(<<P1>>, outcomes)
  /\ UNCHANGED <<manifestUrlToContents, clientIdToHash, clients, sweep, ev,
                 prefixVars, page, agentVars>>

\* A load of the page P1 with the manifest attribute m.
NextPage ==
  \/ \E m \in ManifestUrls :
       \E t \in ServerTexts(m) :
         \E outcomes \in [1..Len(UrlsToCache(t)) -> UrlOutcomes] :
           handlePossibleManifestUpdate(m, t, outcomes)
  \/ \E m \in ManifestUrls, outcomes \in [1..1 -> UrlOutcomes] :
       updateManifestAssociationForCurrentPage(m, outcomes)

SpecPage == Init /\ [][NextPage]_vars

\* The texts of the version records stored for m, in order; a single
\* {text, parsed} record counts as a history of one version.
HistoryTexts(m) ==
  IF m \notin DOMAIN manifestUrlToContents THEN <<>>
  ELSE <<manifestUrlToContents[m].text>>

PairwiseDistinct(ts) ==
  \A i, j \in 1..Len(ts) : i # j => ts[i] # ts[j]

\* C13: after pairwise distinct texts T1..Tk were installed one after the
\* other for a manifest URL, its stored history has exactly k versions in
\* arrival order, the last one holding Tk.
C13_VersionsKept ==
  \A m \in ManifestUrls :
    PairwiseDistinct(page.installed[m]) =>
      HistoryTexts(m) = page.installed[m]

\* The step is a poll of m that fetched the text the previous poll of m
\* fetched.
PollsSameTextAgain(m) ==
  /\ page.polls[m] # <<>>
  /\ page'.polls[m] = Append(page.polls[m], Last(page.polls[m]))

\* C14: a second run of the poller with the same fetched text for the same
\* manifest URL writes nothing: the stored record, the cache entries and the
\* installations stay as the first run left them.
C14_SecondRunWritesNothing ==
  [][\A m \in ManifestUrls :
       PollsSameTextAgain(m) =>
         /\ manifestUrlToContents' = manifestUrlToContents
         /\ caches' = caches
         /\ page'.installed = page.installed]_vars

\* The same text was polled twice in a row for m1, installed once, and the
\* cache holds what that one installation stored.
C14_Witness ==
  /\ page.polls["m1"] = <<"T2", "T2">>
  /\ page.installed["m1"] = <<"T2">>
  /\ StoredText("m1") = "T2"
  /\ CACHE_NAME \in DOMAIN caches
  /\ caches[CACHE_NAME] = {Uxc, Uf2}

\* C15: every recorded version has the cache named by its hash, and every
\* cache the installer populated is named by the hash of a version.
C15_CacheNamedByHash ==
  /\ \A m \in DOMAIN manifestUrlToContents :
       Hash(manifestUrlToContents[m].text) \in DOMAIN caches
  /\ DOMAIN caches \subseteq
       {Hash(manifestUrlToContents[m].text) : m \in DOMAIN manifestUrlToContents}

\* ------------------------------------------------------------------ the sweep, scheduled
\* A navigation request reaches the worker.
Navigation ==
  \E e \in PlainEvents : e.mode = "navigate" /\ FetchEvent(e)

\* The sweep beside one tab of a page whose manifest is m1.
NextRetire ==
  \/ \E e \in PlainEvents : FetchEvent(e)
  \/ Respond
  \/ Sweep
  \/ \E t \in Texts : ManifestPoller("m1", t)
  \/ AssociationRecorder("m1")
  \/ ClientOpens(1)
  \/ ClientCloses(1)

\* The promise chain of a sweep that was started runs to its end, an event
\* being answered is answered, and navigations keep coming.
SpecSweepFair ==
  /\ Init /\ [][NextRetire]_vars
  /\ SF_vars(Sweep)
  /\ WF_vars(Respond)
  /\ SF_vars(Navigation)

\* A navigation has just started a sweep while m1 holds T1 then T2 and a
\* clientId that is gone is still bound to the hash of T1.
RetiredAndStale ==
  /\ sweep.pc = "matchAll"
  /\ Versions("m1") = <<ManifestVersion("T1"), ManifestVersion("T2")>>
  /\ \E c \in DOMAIN clientIdToHash :
       clients[c] = "gone" /\ clientIdToHash[c] = Hash("T1")

\* C16: with T1 then T2 installed for one manifest URL and a clientId bound
\* to the hash of T1 that is no longer a client, the sweep the next
\* navigation starts eventually deletes the cache of T1 and leaves the cache
\* of T2, the current version.
C16_SweepRetiresOldCache ==
  RetiredAndStale ~>
    (/\ Hash("T1") \notin DOMAIN caches
     /\ CurrentIn(Hash("T2")) # {} => Hash("T2") \in DOMAIN caches)

\* The navigation that started such a sweep is being answered, and both
\* caches exist.
C16_Witness ==
  /\ RetiredAndStale
  /\ InFlight
  /\ TheEvent.mode = "navigate"
  /\ {Hash("T1"), Hash("T2")} \subseteq DOMAIN caches

\* The hash names a version that is in some history and is current in none.
Retired(h) ==
  /\ \E m \in DOMAIN manifestUrlToContents :
       \E i \in 1..Len(manifestUrlToContents[m]) :
         manifestUrlToContents[m][i].hash = h
  /\ CurrentIn(h) = {}

\* No live clientId maps to the hash.
Unreferenced(h) ==
  \A c \in DOMAIN clientIdToHash :
    clientIdToHash[c] = h => clients[c] # "live"

\* C17: no cache of a retired version that no live clientId references
\* survives every later navigation sweep.
C17_RetiredEventuallyDestroyed ==
  \A h \in Hashes :
    []<>(~(Retired(h) /\ Unreferenced(h) /\ h \in DOMAIN caches))

\* cleanupOldCaches() was called for the event being answered.
StartedSweep == ev[1].cleanup

\* C18: an event starts a sweep exactly when its request mode is navigate,
\* whatever the outcome of its resolution.
C18_NavigationStartsSweep ==
  InFlight => (StartedSweep <=> TheEvent.mode = "navigate")

\* C19: a hash recorded for a clientId is not changed by a later step, and a
\* step of an event without a clientId records nothing.
C19_ClientIdPinned ==
  [][/\ \A c \in DOMAIN clientIdToHash \cap DOMAIN clientIdToHash' :
          clientIdToHash'[c] = clientIdToHash[c]
     /\ (ev = NoEvent /\ ev' # NoEvent /\ ev'[1].event.clientId = NoClient) =>
          clientIdToHash' = clientIdToHash]_vars

\* C20: a step deletes the CLIENT_ID_TO_HASH entry of a clientId only when
\* that clientId is not a live client at that moment.
C20_OnlyDeadBindingsDeleted ==
  [][\A c \in DOMAIN clientIdToHash \ DOMAIN clientIdToHash' :
       clients[c] # "live"]_vars

\* ------------------------------------------------------------------ addToCache, step by step
\* Parsed manifests that name a URL twice: twice in the CACHE section, and
\* in the CACHE section and as a FALLBACK value.
ParsedTwice == [cache |-> <<Uo, Uo>>, fallback |-> <<>>, network |-> <<>>]
ParsedBoth ==
  [cache |-> <<Uf1>>, fallback |-> << <<Ux, Uf1>> >>, network |-> <<>>]

\* The arguments of addToCache: the page's own URL, or the URLs of a parsed
\* manifest.
InstallerUrls ==
  {<<P1>>} \cup
  {CacheAndFallbackUrls(parsed) : parsed \in {Parsed("T1"), ParsedTwice, ParsedBoth}}

\* The two files that define addToCache: src/unnamed/part_000 fetches each
\* URL itself, src/src/register-service-worker.js calls cache.addAll.
Scripts == {"fetch", "addAll"}

\* The entries of the cache addToCache opens.
Entries == IF CACHE_NAME \in DOMAIN caches THEN caches[CACHE_NAME] ELSE {}

\* addToCache(urls) is called: caches.open creates the cache, and the
\* requests are sent.
StartAddToCache(script, urls, outcomes) ==
  /\ install.pc # "running"
  /\ caches' = Put(caches, CACHE_NAME, Entries)
  /\ install' = [pc |-> "running", script |-> script, urls |-> urls,
                 outcomes |-> outcomes, before |-> Entries, fetched |-> {},
                 inflight |-> {}, finished |-> {}]
  /\ UNCHANGED <<pathToManifest, manifestUrlToContents, clientIdToHash,
                 clients, sweep, ev, prefixVars, page, tabs>>

\* The fetch of the i-th URL settles and its then/catch runs: it issues
\* cache.put or cache.delete, or does nothing.
FetchSettles(i) ==
  /\ install.pc = "running" /\ install.script = "fetch"
  /\ i \in DOMAIN install.urls \ install.fetched
  /\ install' =
       IF CacheEffect(install.outcomes[i]) = "keep"
       THEN [install EXCEPT !.fetched = @ \cup {i}, !.finished = @ \cup {i}]
       ELSE [install EXCEPT !.fetched = @ \cup {i}, !.inflight = @ \cup {i}]
  /\ UNCHANGED <<storeVars, prefixVars, page, tabs>>

\* The cache.put or cache.delete issued for the i-th URL completes.
CacheOpCompletes(i) ==
  /\ install.pc = "running" /\ i \in install.inflight
  /\ caches' =
       Put(caches, CACHE_NAME,
           IF CacheEffect(install.outcomes[i]) = "put"
           THEN Entries \cup {install.urls[i]}
           ELSE Entries \ {install.urls[i]})
  /\ install' = [install EXCEPT !.inflight = @ \ {i}, !.finished = @ \cup {i}]
  /\ UNCHANGED <<pathToManifest, manifestUrlToContents, clientIdToHash,
                 clients, sweep, ev, prefixVars, page, tabs>>

\* Promise.all(fetchRequests) fulfils: every per-URL chain has settled, none
\* of them rejected.
AddToCacheCompletes ==
  /\ install.pc = "running" /\ install.script = "fetch"
  /\ install.finished = DOMAIN install.urls
  /\ install' = [install EXCEPT !.pc = "done"]
  /\ UNCHANGED <<storeVars, prefixVars, page, tabs>>

\* response.ok of the fetch cache.addAll makes.
AddAllOk(o) == o.status = "200"

\* cache.addAll(requests) settles: it stores every response when all of them
\* are ok and rejects otherwise, storing nothing. For a list that names a
\* URL twice browsers differ: dupRejects says whether this one rejects.
AddAllSettles(dupRejects) ==
  /\ install.pc = "running" /\ install.script = "addAll"
  /\ LET n == Len(install.urls)
         twice == \E i, j \in 1..n : i # j /\ install.urls[i] = install.urls[j]
         ok == /\ \A i \in 1..n : AddAllOk(install.outcomes[i])
               /\ ~(twice /\ dupRejects)
     IN /\ caches' = IF ok
                     THEN Put(caches, CACHE_NAME, Entries \cup Range(install.urls))
                     ELSE caches
        /\ install' = [install EXCEPT !.pc = IF ok THEN "done" ELSE "rejected",
                                      !.fetched = 1..n, !.finished = 1..n]
  /\ UNCHANGED <<pathToManifest, manifestUrlToContents, clientIdToHash,
                 clients, sweep, ev, prefixVars, page, tabs>>

NextInstall ==
  \/ \E script \in Scripts, urls \in InstallerUrls :
       \E outcomes \in [1..Len(urls) -> UrlOutcomes] :
         StartAddToCache(script, urls, outcomes)
  \/ \E i \in DOMAIN install.urls : FetchSettles(i)
  \/ \E i \in DOMAIN install.urls : CacheOpCompletes(i)
  \/ AddToCacheCompletes
  \/ \E dupRejects \in BOOLEAN : AddAllSettles(dupRejects)

SpecInstall == Init /\ [][NextInstall]_vars

\* The i-th URL of the call is named once in its list.
NamedOnce(i) ==
  \A j \in DOMAIN install.urls : install.urls[j] = install.urls[i] => j = i

\* A 2xx response that does not carry Cache-Control: no-store.
Storable(o) == o.status = "200" /\ o.cacheControl # "no-store"

\* A 404 or 410 response, or one that carries Cache-Control: no-store.
Removable(o) == o.status \in {"404", "410"} \/ o.cacheControl = "no-store"

\* C21: when addToCache of src/unnamed/part_000 has completed, every URL
\* whose fetch gave a 2xx response without no-store (a response with no
\* Cache-Control header included) is in the cache, and every URL whose fetch
\* gave a 404, a 410 or a no-store response is not.
C21_StoreRule ==
  (install.pc = "done" /\ install.script = "fetch") =>
    \A i \in DOMAIN install.urls :
      NamedOnce(i) =>
        /\ Storable(install.outcomes[i]) => install.urls[i] \in Entries
        /\ Removable(install.outcomes[i]) => install.urls[i] \notin Entries

\* The fetch rejected, or gave a 3xx or a 5xx response.
FailedFetch(o) == o.status \in {"reject", "redirect", "500"}

\* C22: an addToCache call that has settled has completed, not rejected;
\* a URL whose fetch rejected or gave a 3xx or 5xx response has the cache
\* entry it had before the call, and a URL whose fetch gave a storable
\* response with a Cache-Control header is stored.
C22_FailureIsolated ==
  install.pc \in {"done", "rejected"} =>
    /\ install.pc = "done"
    /\ \A i \in DOMAIN install.urls :
         NamedOnce(i) =>
           /\ FailedFetch(install.outcomes[i]) =>
                (install.urls[i] \in Entries <=> install.urls[i] \in install.before)
           /\ (Storable(install.outcomes[i])
                 /\ install.outcomes[i].cacheControl # "absent") =>
                install.urls[i] \in Entries

\* C27: no two cache operations in flight within one addToCache call have
\* the same URL as their key.
C27_OneOperationPerKey ==
  \A i, j \in install.inflight :
    install.urls[i] = install.urls[j] => i = j

\* ------------------------------------------------------------------ the page agent, step by step
\* The manifest every tab's page names, and what the fetches of one
\* addToCache call end with in the tabs: the network is up or down.
TabManifest == "m1"
NetworkUp == [status |-> "200", cacheControl |-> "max-age"]
NetworkDown == [status |-> "reject", cacheControl |-> "absent"]
AllEndWith(urls, o) == [i \in 1..Len(urls) |-> o]

\* The two parts of a Promise.all([store.put, tx.complete, addToCache]).
BothParts == {"put", "seed"}

\* The chain of the entry point has settled, or never started.
ChainSettled(t) == tabs[t].chain # "pending"

\* The page loads in tab t: the entry point opens the database and starts
\* both branches.
LoadPage(t, sw) ==
  /\ ChainSettled(t)
  /\ Len(page.polls[TabManifest]) < MaxPolls
  /\ tabs' = [tabs EXCEPT ![t] = [chain |-> "pending", sw |-> sw,
                                  assoc |-> {}, poll |-> "reading",
                                  parts |-> {}, fetched |-> ""]]
  /\ UNCHANGED <<storeVars, prefixVars, page, install>>

\* updateManifestAssociationForCurrentPage: the put commits.
AssocPut(t) ==
  /\ tabs[t].chain # "idle" /\ "put" \notin tabs[t].assoc
  /\ pathToManifest' = Put(pathToManifest, P1, TabManifest)
  /\ tabs' = [tabs EXCEPT ![t].assoc = @ \cup {"put"}]
  /\ UNCHANGED <<manifestUrlToContents, clientIdToHash, caches, clients,
                 sweep, ev, prefixVars, page, install>>

\* updateManifestAssociationForCurrentPage: addToCache([location.href])
\* completes.
AssocSeed(t, o) ==
  /\ tabs[t].chain # "idle" /\ "seed" \notin tabs[t].assoc
  /\ caches' = addToCache(<<P1>>, AllEndWith(<<P1>>, o))
  /\ tabs' = [tabs EXCEPT ![t].assoc = @ \cup {"seed"}]
  /\ UNCHANGED <<pathToManifest, manifestUrlToContents, clientIdToHash,
                 clients, sweep, ev, prefixVars, page, install>>

\* handlePossibleManifestUpdate: the fetch of the manifest and the store.get
\* settle. f is the text fetched, or "reject" when the fetch rejects: then
\* the Promise.all rejects and the comparison never runs.
PollReads(t, f) ==
  /\ tabs[t].poll = "reading"
  /\ tabs' = [tabs EXCEPT ![t].fetched = f,
                          ![t].poll =
                            IF f = "reject" THEN "rejected"
                            ELSE IF TextsDiffer(f, StoredText(TabManifest))
                                 THEN "updating" ELSE "done"]
  /\ page' = IF f = "reject" THEN page
             ELSE [page EXCEPT !.polls[TabManifest] = Append(@, f)]
  /\ UNCHANGED <<storeVars, prefixVars, install>>

\* The poll's position once a part of performManifestUpdate completed.
AfterPart(t, part) ==
  IF tabs[t].parts \cup {part} = BothParts THEN "done" ELSE "updating"

\* performManifestUpdate: the put of the record commits.
PollPut(t) ==
  /\ tabs[t].poll = "updating" /\ "put" \notin tabs[t].parts
  /\ manifestUrlToContents' =
       Put(manifestUrlToContents, TabManifest, ManifestRecord(tabs[t].fetched))
  /\ page' = [page EXCEPT !.installed[TabManifest] = Append(@, tabs[t].fetched)]
  /\ tabs' = [tabs EXCEPT ![t].parts = @ \cup {"put"},
                          ![t].poll = AfterPart(t, "put")]
  /\ UNCHANGED <<pathToManifest, clientIdToHash, caches, clients, sweep, ev,
                 prefixVars, install>>

\* performManifestUpdate: addToCache of the manifest's URLs completes.
PollSeed(t, o) ==
  /\ tabs[t].poll = "updating" /\ "seed" \notin tabs[t].parts
  /\ LET urls == UrlsToCache(tabs[t].fetched)
     IN caches' = addToCache(urls, AllEndWith(urls, o))
  /\ tabs' = [tabs EXCEPT ![t].parts = @ \cup {"seed"},
                          ![t].poll = AfterPart(t, "seed")]
  /\ UNCHANGED <<pathToManifest, manifestUrlToContents, clientIdToHash,
                 clients, sweep, ev, prefixVars, page, install>>

\* The Promise.all of the entry point fulfils: both branches fulfilled; and
\* the variant that goes on when either did.
BranchesFulfilled_either(t) ==
  tabs[t].assoc = BothParts \/ tabs[t].poll = "done"

BranchesFulfilled(t) ==
  tabs[t].assoc = BothParts /\ tabs[t].poll = "done"

\* The then-callback of the entry point: register the worker script, if the
\* boot snippet names one.
Register(t) ==
  /\ tabs[t].chain = "pending"
  /\ BranchesFulfilled(t)
  /\ tabs' = [tabs EXCEPT ![t].chain =
                IF tabs[t].sw THEN "registered" ELSE "done"]
  /\ UNCHANGED <<storeVars, prefixVars, page, install>>

\* The Promise.all of the entry point rejects as soon as one branch rejects;
\* the chain has no catch, so it ends rejected and nothing is registered.
ChainRejects(t) ==
  /\ tabs[t].chain = "pending"
  /\ tabs[t].poll = "rejected"
  /\ tabs' = [tabs EXCEPT ![t].chain = "rejected"]
  /\ UNCHANGED <<storeVars, prefixVars, page, install>>

NextTabs ==
  \E t \in Tabs :
    \/ \E sw \in BOOLEAN : LoadPage(t, sw)
    \/ AssocPut(t)
    \/ \E o \in {NetworkUp, NetworkDown} : AssocSeed(t, o)
    \/ \E f \in ServerTexts(TabManifest) \cup {"reject"} : PollReads(t, f)
    \/ PollPut(t)
    \/ \E o \in {NetworkUp, NetworkDown} : PollSeed(t, o)
    \/ Register(t)
    \/ ChainRejects(t)

SpecTabs == Init /\ [][NextTabs]_vars

\* C23: a poll whose manifest fetch rejects writes neither the store nor a
\* cache, and the chain of the entry point does not end rejected by it.
C23_ManifestFetchFailureSwallowed ==
  [][\A t \in Tabs :
       /\ (tabs[t].poll = "reading" /\ tabs'[t].poll = "rejected") =>
            /\ manifestUrlToContents' = manifestUrlToContents
            /\ caches' = caches
       /\ tabs'[t].poll = "rejected" => tabs'[t].chain # "rejected"]_vars

\* C24: the step that registers the worker script of a tab is taken when
\* the tab's association (put committed, document seeded) and its poll (with
\* both parts of the installation, if it started one) have completed.
C24_RegisteredAfterBoth ==
  [][\A t \in Tabs :
       (tabs[t].chain # "registered" /\ tabs'[t].chain = "registered") =>
         /\ tabs[t].assoc = BothParts
         /\ P1 \in DOMAIN pathToManifest /\ CACHE_NAME \in DOMAIN caches
         /\ tabs[t].poll = "done"
         /\ tabs[t].parts \in {{}, BothParts}
         /\ tabs[t].parts = BothParts =>
              tabs[t].fetched \in Range(page.installed[TabManifest])]_vars

\* Tab 1 registered after its poll installed a version, while the agent of
\* tab 2 is still installing.
C24_Witness ==
  /\ tabs[1].chain = "registered" /\ tabs[1].parts = BothParts
  /\ tabs[2].chain = "pending" /\ tabs[2].poll = "updating"

\* C25: once the association of a tab has completed, PATH_TO_MANIFEST of
\* the document is a record {url, hash} whose hash names a version stored
\* for the manifest URL, and the document is in the cache named by it.
C25_AssociationRecord ==
  (\E t \in Tabs : tabs[t].assoc = BothParts) =>
    /\ P1 \in DOMAIN pathToManifest
    /\ LET binding == pathToManifest[P1]
       IN /\ binding \notin ManifestUrls
          /\ binding.url = TabManifest
          /\ binding.url \in DOMAIN manifestUrlToContents
          /\ binding.hash = Hash(manifestUrlToContents[binding.url].text)
          /\ binding.hash \in DOMAIN caches
          /\ P1 \in caches[binding.hash]

\* No two adjacent versions of the history of m have the same hash.
NoAdjacentSame(m) ==
  \A i \in 1..(Len(HistoryTexts(m)) - 1) :
    Hash(HistoryTexts(m)[i]) # Hash(HistoryTexts(m)[i + 1])

\* Every version installed for m is in its history.
NothingLost(m) ==
  Range(page.installed[m]) \subseteq Range(HistoryTexts(m))

\* C26: whatever the interleaving of the tabs' reads and writes, no two
\* adjacent versions of a history share a hash and no installed version is
\* missing from it.
C26_HistoryUnderInterleaving ==
  \A m \in ManifestUrls : NoAdjacentSame(m) /\ NothingLost(m)

====
